---- MODULE Spec2Model ----
(***************************************************************************)
(* Media processing platform: the submit handler (backend/app/main.py,     *)
(* upload_media), the six-stage Celery chain and its row writes            *)
(* (backend/app/tasks.py), the storage fallback (backend/app/storage.py)   *)
(* and the websocket status stream (main.py, task_updates).                *)
(*                                                                         *)
(* The database is the table media_tasks.  A row inserted by a session is  *)
(* seen by the other sessions only once that session has committed.  The   *)
(* broker delivers a stage message at least once: task_acks_late=True      *)
(* (celery_app.py) keeps a message unacknowledged while its stage runs,    *)
(* and an unacknowledged message can be delivered again.                   *)
(***************************************************************************)
EXTENDS Integers, Sequences, FiniteSets, TLC

\* ---------------------------------------------------------------- bounds
\* submissions handled within the window
NumReq == 2
\* how many times the broker delivers an unacknowledged message again
MaxRedeliver == 1
\* ticks of the status stream within the window
MaxTicks == 2
\* largest side, in pixels, of the small source images converted
MaxDim == 8

\* ------------------------------------------------------ program constants
max_active_tasks_per_user == 3
max_retries == 5

Reqs == 1..NumReq
\* rows admitted before the window whose stage is still executing: the user of
\* the window is one row below the quota, and another user has a row
PreIds == (NumReq + 1)..(NumReq + max_active_tasks_per_user - 1)
OtherId == NumReq + max_active_tasks_per_user
TaskIds == 1..OtherId
\* the first submission of the window
First == CHOOSE r \in Reqs : \A q \in Reqs : r <= q
\* the id the status stream is opened for
StreamTask == First

\* every submission of the window comes from the same user
UserOf(r) == "u"

Stages == <<"validate_media", "generate_thumbnail", "convert_resolutions", "apply_watermark", "upload_outputs", "finalize_success">>
StageNames == {Stages[i] : i \in 1..Len(Stages)}
StageIndex(s) == CHOOSE i \in 1..Len(Stages) : Stages[i] = s

\* resolutions = [("1080p", 1920), ("720p", 1280), ("480p", 854)]
resolutions == <<[label |-> "1080p", width |-> 1920], [label |-> "720p", width |-> 1280], [label |-> "480p", width |-> 854]>>

\* ----------------------------------------------------------- None values
NoneStr == "None"
NoneInt == 0 - 1
NonePath == <<>>
EmptyOutputs == [thumbnail |-> <<>>, variants |-> <<>>]
NoneOutputs == [thumbnail |-> <<"None">>, variants |-> <<>>]

\* a file on the worker's disk and the public url of an uploaded object
LocalPath(t, name) == <<"local", t, name>>
PublicUrl(t, name) == <<"url", t, name>>

\* ------------------------------------------------------------------ state
VARIABLES
  rows,        \* media_tasks: task id -> row (vis: absent, flushed, committed)
  files,       \* the input file written for a request: [ext, size], size -1 = no file
  hpc,         \* position of each upload_media call
  resp,        \* the UploadResponse.status each call returned
  queue,       \* stage messages in the broker
  running,     \* stage messages delivered to a worker and not yet acknowledged
  budget,      \* redeliveries the broker still makes
  spc,         \* position of the task_updates loop
  sent,        \* what the websocket has sent
  progLog,     \* per task, the last two progress values committed to its row
  invoked,     \* per task, the stages an execution of which has started
  lastExc,     \* per task, what its last finished execution raised and how many
               \* executions of that message had raised by then (None, 0: it returned)
  after4,      \* per task, whether a stage has returned after raising four times
  upl,         \* per task, the storage its upload_outputs executions have met
  img,         \* the source image convert_resolutions opens: [width, height]
  variants,    \* the (width, height) convert_resolutions resized the image to
  sessions     \* store sessions task_updates has opened and not closed

vars == <<rows, files, hpc, resp, queue, running, budget, spc, sent, progLog, invoked, lastExc, after4, upl, img, variants, sessions>>

\* ------------------------------------------------------------------- rows
AbsentRow == [vis |-> "absent", user_id |-> NoneStr, status |-> NoneStr, progress |-> NoneInt, outputs |-> EmptyOutputs, error_message |-> NoneStr, thumbnail_path |-> NonePath, celery_task_id |-> NoneInt]

\* MediaTask(user_id=..., status="queued", progress=0, source_path="", outputs={})
NewRow(u) == [vis |-> "flushed", user_id |-> u, status |-> "queued", progress |-> 0, outputs |-> EmptyOutputs, error_message |-> NoneStr, thumbnail_path |-> NonePath, celery_task_id |-> NoneInt]

\* a row admitted before the window whose stage is still executing
EarlierRow(u) == [vis |-> "committed", user_id |-> u, status |-> "processing", progress |-> 25, outputs |-> EmptyOutputs, error_message |-> NoneStr, thumbnail_path |-> LocalPath(0, "thumb"), celery_task_id |-> 0]

\* db.get(MediaTask, id) from another session: only committed rows are seen
Visible(rs, id) == rs[id].vis = "committed"

Terminal(st) == st \in {"completed", "failed"}

\* select count(id) where user_id == u and status in ("queued", "processing")
ActiveCount(rs, u) == Cardinality({t \in TaskIds : Visible(rs, t) /\ rs[t].user_id = u /\ rs[t].status \in {"queued", "processing"}})

\* a quota check that lets a user at the quota in
QuotaExceeded_above(rs, u) == ActiveCount(rs, u) > max_active_tasks_per_user

\* if active_count >= settings.max_active_tasks_per_user: raise HTTPException(429)
QuotaExceeded(rs, u) == ActiveCount(rs, u) >= max_active_tasks_per_user

\* update_media_row: the row is read, every argument that is not None is
\* assigned, and the session commits; a row that is not found is left alone
UpdArgs(st, pr, out, err, th) == [status |-> st, progress |-> pr, outputs |-> out, error_message |-> err, thumbnail_path |-> th]

update_media_row(rs, id, a) ==
  IF ~Visible(rs, id) THEN rs
  ELSE [rs EXCEPT ![id] = [@ EXCEPT
          !.status = IF a.status # NoneStr THEN a.status ELSE @,
          !.progress = IF a.progress # NoneInt THEN a.progress ELSE @,
          !.outputs = IF a.outputs # NoneOutputs THEN a.outputs ELSE @,
          !.error_message = IF a.error_message # NoneStr THEN a.error_message ELSE @,
          !.thumbnail_path = IF a.thumbnail_path # NonePath THEN a.thumbnail_path ELSE @]]

\* the progress value a call of update_media_row commits, after the one before it
LogProgress(log, rs, id, a) ==
  IF Visible(rs, id) /\ a.progress # NoneInt THEN [log EXCEPT ![id] = [prev |-> @.last, last |-> a.progress]] ELSE log

\* ---------------------------------------------------------------- context
InitialCtx(t) == [media_task_id |-> t, kind |-> NoneStr, size_bytes |-> NoneInt, thumbnail_path |-> NonePath, converted |-> <<>>, watermarked |-> <<>>, uploaded |-> <<>>, thumbnail_url |-> NonePath]

Msg(t, stage, retries, copy, ctx) == [task |-> t, stage |-> stage, retries |-> retries, copy |-> copy, ctx |-> ctx]

\* ----------------------------------------------------------------- stages
\* A stage either returns its context, after one update_media_row, or raises.
Return(ctx, upd) == [res |-> "return", exc |-> NoneStr, msg |-> NoneStr, ctx |-> ctx, upd |-> upd]
Raise(exc, msg, ctx) == [res |-> "raise", exc |-> exc, msg |-> msg, ctx |-> ctx, upd |-> UpdArgs(NoneStr, NoneInt, NoneOutputs, NoneStr, NonePath)]

\* _file_kind
ImageExt == {".jpg", ".jpeg", ".png", ".webp"}
VideoExt == {".mp4", ".mov", ".mkv", ".webm"}
\* f"Unsupported media format: {ext}"
UnsupportedFormat(ext) == IF ext = ".txt" THEN "Unsupported media format: .txt" ELSE "Unsupported media format"
file_kind(ext) == IF ext \in ImageExt THEN "image" ELSE IF ext \in VideoExt THEN "video" ELSE "ValueError"

\* validate_media
validate_media(ctx, f) ==
  IF f.size < 0 THEN Raise("ValueError", "Uploaded source file does not exist", ctx)
  ELSE IF file_kind(f.ext) = "ValueError" THEN Raise("ValueError", UnsupportedFormat(f.ext), ctx)
  ELSE IF f.size = 0 THEN Raise("ValueError", "Uploaded file is empty", ctx)
  ELSE Return([ctx EXCEPT !.kind = file_kind(f.ext), !.size_bytes = f.size], UpdArgs("processing", 10, NoneOutputs, NoneStr, NonePath))

\* generate_thumbnail; rc is ffmpeg's return code
generate_thumbnail(ctx, rc) ==
  IF ctx.kind # "image" /\ rc # 0 THEN Raise("TransientProcessingError", "Failed to generate video thumbnail", ctx)
  ELSE Return([ctx EXCEPT !.thumbnail_path = LocalPath(ctx.media_task_id, "thumb")], UpdArgs(NoneStr, 25, NoneOutputs, NoneStr, LocalPath(ctx.media_task_id, "thumb")))

\* f"Failed to convert {label}"
ConvertError == <<"Failed to convert 1080p", "Failed to convert 720p", "Failed to convert 480p">>

\* convert_resolutions; failAt is the first resolution whose ffmpeg run fails (0: none)
convert_resolutions(ctx, failAt) ==
  IF ctx.kind # "image" /\ failAt # 0 THEN Raise("TransientProcessingError", ConvertError[failAt], ctx)
  ELSE Return([ctx EXCEPT !.converted = [i \in 1..Len(resolutions) |-> [label |-> resolutions[i].label, path |-> LocalPath(ctx.media_task_id, resolutions[i].label)]]], UpdArgs(NoneStr, 55, NoneOutputs, NoneStr, NonePath))

\* dst = src.with_name(f"{src.stem}_wm{src.suffix}")
WmName == [x \in {"1080p", "720p", "480p"} |-> CASE x = "1080p" -> "1080p_wm" [] x = "720p" -> "720p_wm" [] OTHER -> "480p_wm"]

\* apply_watermark; rc is the return code of the first ffmpeg run that fails (0: none)
apply_watermark(ctx, rc) ==
  IF ctx.kind # "image" /\ rc # 0 THEN Raise("TransientProcessingError", "Failed to watermark video", ctx)
  ELSE Return([ctx EXCEPT !.watermarked = [i \in 1..Len(ctx.converted) |-> [label |-> ctx.converted[i].label, path |-> LocalPath(ctx.media_task_id, WmName[ctx.converted[i].label])]]], UpdArgs(NoneStr, 75, NoneOutputs, NoneStr, NonePath))

\* upload_file_to_storage; outcome is what client.upload_file does: "ok", or
\* "err" when it raises BotoCoreError or ClientError
upload_file_to_storage(path, enabled, outcome) ==
  IF ~enabled THEN path
  ELSE IF outcome = "ok" THEN PublicUrl(path[2], path[3])
  ELSE path

\* what storage does during one upload_outputs call: settings.s3_enabled, and
\* the outcome of each upload (the watermarked variants in order, then the thumbnail)
AllErr == [i \in 1..(Len(resolutions) + 1) |-> "err"]
AllOk == [i \in 1..(Len(resolutions) + 1) |-> "ok"]
UploadOutcomes == {[enabled |-> FALSE, o |-> AllErr], [enabled |-> TRUE, o |-> AllErr], [enabled |-> TRUE, o |-> AllOk], [enabled |-> TRUE, o |-> [AllOk EXCEPT ![2] = "err"]], [enabled |-> TRUE, o |-> [AllErr EXCEPT ![1] = "ok"]]}
StorageMet(e) == IF ~e.enabled THEN "disabled" ELSE IF e.o = AllErr THEN "unavailable" ELSE "available"

Raised(x) == x[1] = "raise"

\* upload_outputs
upload_outputs(ctx, e) ==
  LET urls == [i \in 1..Len(ctx.watermarked) |-> upload_file_to_storage(ctx.watermarked[i].path, e.enabled, e.o[i])]
      thumb_url == upload_file_to_storage(ctx.thumbnail_path, e.enabled, e.o[Len(ctx.watermarked) + 1])
  IN IF (\E i \in 1..Len(urls) : Raised(urls[i])) \/ Raised(thumb_url) THEN Raise("S3UploadError", "upload failed", ctx)
     ELSE Return([ctx EXCEPT !.uploaded = [i \in 1..Len(ctx.watermarked) |-> [label |-> ctx.watermarked[i].label, url |-> urls[i], path |-> ctx.watermarked[i].path]], !.thumbnail_url = thumb_url], UpdArgs(NoneStr, 90, NoneOutputs, NoneStr, NonePath))

\* outputs = {"thumbnail": ctx["thumbnail_url"], "variants": [{"label", "url"} ...]}
FinalOutputs(ctx) == [thumbnail |-> ctx.thumbnail_url, variants |-> [i \in 1..Len(ctx.uploaded) |-> [label |-> ctx.uploaded[i].label, url |-> ctx.uploaded[i].url]]]

\* finalize_success: error_message=None is passed to update_media_row
finalize_success(ctx) ==
  Return(ctx, UpdArgs("completed", 100, FinalOutputs(ctx), NoneStr, NonePath))

\* what the environment decides for one execution of a stage
EnvChoices(m) ==
  CASE m.stage = "generate_thumbnail" -> IF m.ctx.kind = "image" THEN {0} ELSE {0, 1}
    [] m.stage = "convert_resolutions" -> IF m.ctx.kind = "image" THEN {0} ELSE 0..Len(resolutions)
    [] m.stage = "apply_watermark" -> IF m.ctx.kind = "image" THEN {0} ELSE {0, 1}
    [] m.stage = "upload_outputs" -> UploadOutcomes
    [] OTHER -> {0}

RunStage(m, e) ==
  CASE m.stage = "validate_media" -> validate_media(m.ctx, files[m.task])
    [] m.stage = "generate_thumbnail" -> generate_thumbnail(m.ctx, e)
    [] m.stage = "convert_resolutions" -> convert_resolutions(m.ctx, e)
    [] m.stage = "apply_watermark" -> apply_watermark(m.ctx, e)
    [] m.stage = "upload_outputs" -> upload_outputs(m.ctx, e)
    [] OTHER -> finalize_success(m.ctx)

\* a task class that retries nothing: every raise goes to on_failure
WillRetry_never(m, r) == FALSE

\* BaseMediaTask: autoretry_for = (TransientProcessingError,), max_retries = 5
autoretry_for == {"TransientProcessingError"}
WillRetry(m, r) == r.exc \in autoretry_for /\ m.retries < max_retries

\* BaseMediaTask.on_failure
on_failure(rs, m, r) == update_media_row(rs, m.ctx.media_task_id, UpdArgs("failed", NoneInt, NoneOutputs, r.msg, NonePath))

\* chain(validate_media.s(), ..., finalize_success.s()): the message of the next link
NextLink(m, r) ==
  IF StageIndex(m.stage) = Len(Stages) THEN {}
  ELSE {Msg(m.task, Stages[StageIndex(m.stage) + 1], 0, m.copy, r.ctx)}

\* ------------------------------------------------------------------- Init
NoFile == [ext |-> NoneStr, size |-> NoneInt]
AllUploads == [ext : {".jpg", ".mp4", ".txt"}, size : {0, 1}]
\* the first submission of the window uploads any file, the others a file
\* that validate_media refuses
Uploads(r) == IF r = First THEN AllUploads ELSE {f \in AllUploads : validate_media(InitialCtx(r), f).res = "raise"}

NoExc == [msg |-> NoneStr, n |-> 0]
NoImage == [width |-> 0, height |-> 0]

\* The windows explored: one submission whose messages the broker may
\* deliver again, or all the submissions and a subscriber of the status
\* stream with a broker that delivers once.
Windows == {[reqs |-> First, redeliver |-> MaxRedeliver, stream |-> FALSE], [reqs |-> NumReq, redeliver |-> 0, stream |-> TRUE]}

Init ==
  \E w \in Windows :
    /\ rows = [t \in TaskIds |-> IF t \in PreIds THEN EarlierRow("u") ELSE IF t = OtherId THEN EarlierRow("v") ELSE AbsentRow]
    /\ files = [r \in Reqs |-> NoFile]
    /\ hpc = [r \in Reqs |-> IF r <= w.reqs THEN "start" ELSE "none"]
    /\ resp = [r \in Reqs |-> NoneStr]
    /\ queue = {}
    /\ running = {}
    /\ budget = w.redeliver
    /\ spc = IF w.stream THEN "tick" ELSE "off"
    /\ sent = <<>>
    /\ progLog = [t \in Reqs |-> [prev |-> NoneInt, last |-> NoneInt]]
    /\ invoked = [t \in Reqs |-> {}]
    /\ lastExc = [t \in Reqs |-> NoExc]
    /\ after4 = [t \in Reqs |-> FALSE]
    /\ upl = [t \in Reqs |-> {}]
    /\ img = NoImage
    /\ variants = <<>>
    /\ sessions = 0

\* ---------------------------------------------------------- upload_media
\* lines 48-57: count the user's active rows, reject at the quota
Count(r) ==
  /\ hpc[r] = "start"
  /\ hpc' = [hpc EXCEPT ![r] = IF QuotaExceeded(rows, UserOf(r)) THEN "rejected" ELSE "admitted"]
  /\ UNCHANGED <<img, variants, sessions, rows, files, resp, queue, running, budget, spc, sent, progLog, invoked, lastExc, after4, upl>>

\* lines 59-77: add and flush the row, write the input file, start the chain
Create(r, f) ==
  /\ hpc[r] = "admitted"
  /\ rows' = [rows EXCEPT ![r] = [NewRow(UserOf(r)) EXCEPT !.celery_task_id = r]]
  /\ files' = [files EXCEPT ![r] = f]
  /\ queue' = queue \cup {Msg(r, Stages[1], 0, 0, InitialCtx(r))}
  /\ hpc' = [hpc EXCEPT ![r] = "enqueued"]
  /\ UNCHANGED <<img, variants, sessions, resp, running, budget, spc, sent, progLog, invoked, lastExc, after4, upl>>

\* line 78: db.commit()
Commit(r) ==
  /\ hpc[r] = "enqueued"
  /\ rows' = [rows EXCEPT ![r].vis = "committed"]
  /\ hpc' = [hpc EXCEPT ![r] = "committed"]
  /\ UNCHANGED <<img, variants, sessions, files, resp, queue, running, budget, spc, sent, progLog, invoked, lastExc, after4, upl>>

\* lines 79-81: db.refresh(media_row), UploadResponse(status=media_row.status)
Respond(r) ==
  /\ hpc[r] = "committed"
  /\ resp' = [resp EXCEPT ![r] = rows[r].status]
  /\ hpc' = [hpc EXCEPT ![r] = "done"]
  /\ UNCHANGED <<img, variants, sessions, rows, files, queue, running, budget, spc, sent, progLog, invoked, lastExc, after4, upl>>

\* ---------------------------------------------------------------- workers
\* a worker takes a message and starts the stage; the message stays unacknowledged
Start(m) ==
  /\ m \in queue
  /\ queue' = queue \ {m}
  /\ running' = running \cup {m}
  /\ invoked' = [invoked EXCEPT ![m.task] = @ \cup {m.stage}]
  /\ UNCHANGED <<img, variants, sessions, rows, files, hpc, resp, budget, spc, sent, progLog, lastExc, after4, upl>>

\* the broker delivers an unacknowledged message again
Redeliver(m) ==
  /\ m \in running
  /\ budget > 0
  /\ budget' = budget - 1
  /\ queue' = queue \cup {[m EXCEPT !.copy = budget]}
  /\ UNCHANGED <<img, variants, sessions, rows, files, hpc, resp, running, spc, sent, progLog, invoked, lastExc, after4, upl>>

\* the stage body runs to its end: it returns (row update, next link), is
\* retried, or fails (on_failure); then the message is acknowledged
Finish(m) ==
  /\ m \in running
  /\ \E e \in EnvChoices(m) :
       LET r == RunStage(m, e) IN
         /\ upl' = IF m.stage = "upload_outputs" THEN [upl EXCEPT ![m.task] = @ \cup {StorageMet(e)}] ELSE upl
         /\ IF r.res = "return" THEN
              /\ rows' = update_media_row(rows, m.task, r.upd)
              /\ progLog' = LogProgress(progLog, rows, m.task, r.upd)
              /\ queue' = queue \cup NextLink(m, r)
              /\ lastExc' = [lastExc EXCEPT ![m.task] = NoExc]
              /\ after4' = [after4 EXCEPT ![m.task] = @ \/ m.retries = 4]
            ELSE IF WillRetry(m, r) THEN
              /\ rows' = rows
              /\ progLog' = progLog
              /\ queue' = queue \cup {Msg(m.task, m.stage, m.retries + 1, m.copy, m.ctx)}
              /\ lastExc' = [lastExc EXCEPT ![m.task] = [msg |-> r.msg, n |-> m.retries + 1]]
              /\ after4' = after4
            ELSE
              /\ rows' = on_failure(rows, m, r)
              /\ progLog' = progLog
              /\ queue' = queue
              /\ lastExc' = [lastExc EXCEPT ![m.task] = [msg |-> r.msg, n |-> m.retries + 1]]
              /\ after4' = after4
  /\ running' = running \ {m}
  /\ UNCHANGED <<img, variants, sessions, files, hpc, resp, budget, spc, sent, invoked>>

\* ----------------------------------------------------------- task_updates
Snapshot(row) == [kind |-> "snapshot", status |-> row.status, progress |-> row.progress]
NotFound == [kind |-> "error", status |-> NoneStr, progress |-> NoneInt]

\* a loop that breaks on completed only
task_updates_loop_completed_only(rs, id, snt) ==
  IF ~Visible(rs, id) THEN [sent |-> Append(snt, NotFound), pc |-> "closed"]
  ELSE [sent |-> Append(snt, Snapshot(rs[id])), pc |-> IF rs[id].status = "completed" THEN "closed" ELSE "tick"]

\* a loop that goes on after the not-found message
task_updates_loop_no_break(rs, id, snt) ==
  IF ~Visible(rs, id) THEN [sent |-> Append(snt, NotFound), pc |-> "tick"]
  ELSE [sent |-> Append(snt, Snapshot(rs[id])), pc |-> IF Terminal(rs[id].status) THEN "closed" ELSE "tick"]

\* one iteration of the loop: read the row, send, close the session, then
\* break on a missing row or on a terminal status, else sleep
task_updates_loop(rs, id, snt) ==
  IF ~Visible(rs, id) THEN [sent |-> Append(snt, NotFound), pc |-> "closed"]
  ELSE [sent |-> Append(snt, Snapshot(rs[id])), pc |-> IF Terminal(rs[id].status) THEN "closed" ELSE "tick"]

\* the session the iteration opens is closed before the break or the sleep
Tick ==
  /\ spc = "tick"
  /\ Len(sent) < MaxTicks
  /\ sent' = task_updates_loop(rows, StreamTask, sent).sent
  /\ spc' = task_updates_loop(rows, StreamTask, sent).pc
  /\ UNCHANGED <<img, variants, sessions, rows, files, hpc, resp, queue, running, budget, progLog, invoked, lastExc, after4, upl>>

\* the subscriber has gone: the iteration opens its session and reads the row,
\* send_json raises WebSocketDisconnect before db.close() is reached, and the
\* handler returns (except WebSocketDisconnect: return)
Disconnect ==
  /\ spc = "tick"
  /\ sessions' = sessions + 1
  /\ spc' = "gone"
  /\ UNCHANGED <<img, variants, rows, files, hpc, resp, queue, running, budget, sent, progLog, invoked, lastExc, after4, upl>>

Next ==
  \/ \E r \in Reqs : Count(r)
  \/ \E r \in Reqs : \E f \in Uploads(r) : Create(r, f)
  \/ \E r \in Reqs : Commit(r)
  \/ \E r \in Reqs : Respond(r)
  \/ \E m \in queue : Start(m)
  \/ \E m \in running : Redeliver(m)
  \/ \E m \in running : Finish(m)
  \/ Tick
  \/ Disconnect

Spec == Init /\ [][Next]_vars

\* ------------------------------------------- convert_resolutions, an image
\* max(1, x)
Max(a, b) == IF a >= b THEN a ELSE b

\* ratio = width / float(img.width); height = max(1, int(img.height * ratio)):
\* int() truncates.  For the sides of SourceImages the double product lies in
\* the same unit interval as the exact quotient, so the truncation is the
\* integer quotient.
resized_height(im, width) == Max(1, (im.height * width) \div im.width)

\* the sides of the source images: the small ones, and 1000 x 500
Sides == (1..MaxDim) \cup {500, 1000}
SourceImages == [width : Sides, height : Sides]

\* the pipeline at rest, and an image to convert
InitConvert ==
  /\ rows = [t \in TaskIds |-> IF t \in PreIds THEN EarlierRow("u") ELSE IF t = OtherId THEN EarlierRow("v") ELSE AbsentRow]
  /\ files = [r \in Reqs |-> NoFile]
  /\ hpc = [r \in Reqs |-> "none"]
  /\ resp = [r \in Reqs |-> NoneStr]
  /\ queue = {}
  /\ running = {}
  /\ budget = 0
  /\ spc = "off"
  /\ sent = <<>>
  /\ progLog = [t \in Reqs |-> [prev |-> NoneInt, last |-> NoneInt]]
  /\ invoked = [t \in Reqs |-> {}]
  /\ lastExc = [t \in Reqs |-> NoExc]
  /\ after4 = [t \in Reqs |-> FALSE]
  /\ upl = [t \in Reqs |-> {}]
  /\ img \in SourceImages
  /\ variants = <<>>
  /\ sessions = 0

\* the loop of convert_resolutions over resolutions, kind image:
\* img.resize((width, height)) for each width
ConvertImage ==
  /\ variants = <<>>
  /\ variants' = [i \in 1..Len(resolutions) |-> [width |-> resolutions[i].width, height |-> resized_height(img, resolutions[i].width)]]
  /\ UNCHANGED <<img, sessions, rows, files, hpc, resp, queue, running, budget, spc, sent, progLog, invoked, lastExc, after4, upl>>

NextConvert == ConvertImage

SpecConvert == InitConvert /\ [][NextConvert]_vars

\* ------------------------------------------- one submission, fair scheduling
\* one submission, a broker that delivers once, no subscriber
InitFair ==
  /\ rows = [t \in TaskIds |-> IF t \in PreIds THEN EarlierRow("u") ELSE IF t = OtherId THEN EarlierRow("v") ELSE AbsentRow]
  /\ files = [r \in Reqs |-> NoFile]
  /\ hpc = [r \in Reqs |-> IF r = First THEN "start" ELSE "none"]
  /\ resp = [r \in Reqs |-> NoneStr]
  /\ queue = {}
  /\ running = {}
  /\ budget = 0
  /\ spc = "off"
  /\ sent = <<>>
  /\ progLog = [t \in Reqs |-> [prev |-> NoneInt, last |-> NoneInt]]
  /\ invoked = [t \in Reqs |-> {}]
  /\ lastExc = [t \in Reqs |-> NoExc]
  /\ after4 = [t \in Reqs |-> FALSE]
  /\ upl = [t \in Reqs |-> {}]
  /\ img = NoImage
  /\ variants = <<>>
  /\ sessions = 0

NextFair ==
  \/ \E r \in Reqs : Count(r)
  \/ \E r \in Reqs : \E f \in Uploads(r) : Create(r, f)
  \/ \E r \in Reqs : Commit(r)
  \/ \E r \in Reqs : Respond(r)
  \/ \E m \in queue : Start(m)
  \/ \E m \in running : Finish(m)

\* the handler runs to its end, a worker takes every queued message and every
\* stage body returns or raises (the external tools and the storage return)
Fairness ==
  /\ WF_vars(\E r \in Reqs : Count(r))
  /\ WF_vars(\E r \in Reqs : \E f \in Uploads(r) : Create(r, f))
  /\ WF_vars(\E r \in Reqs : Commit(r))
  /\ WF_vars(\E r \in Reqs : Respond(r))
  /\ WF_vars(\E m \in queue : Start(m))
  /\ WF_vars(\E m \in running : Finish(m))

SpecFair == InitFair /\ [][NextFair]_vars /\ Fairness

\* ----------------------------------------------------------------- claims
\* the pipeline of a task is over: its submit call has returned and no
\* message of it is queued or executing
Quiet(t) == hpc[t] = "done" /\ \A m \in queue \cup running : m.task # t

ActiveRows(u) == {t \in TaskIds : rows[t].vis = "committed" /\ rows[t].user_id = u /\ rows[t].status \in {"queued", "processing"}}

SameResult(a, b) == a.status = b.status /\ a.progress = b.progress /\ a.outputs = b.outputs /\ a.error_message = b.error_message

\* C1: once a row's status is completed or failed, no later write changes its
\* status, progress, outputs or error_message.
C1_TerminalAbsorbing ==
  [][\A t \in Reqs : (Visible(rows, t) /\ Terminal(rows[t].status)) => SameResult(rows'[t], rows[t])]_vars

\* C2: the progress values committed to a task's row are strictly increasing,
\* and a completed task's last committed value is 100.
C2_ProgressStrictlyIncreasing ==
  \A t \in Reqs :
    /\ progLog[t].prev # NoneInt => progLog[t].prev < progLog[t].last
    /\ (Visible(rows, t) /\ rows[t].status = "completed") => progLog[t].last = 100

PermanentReasons == {"Uploaded source file does not exist", "Unsupported media format: .txt", "Uploaded file is empty"}

\* C3: when a stage has failed permanently and the pipeline is over, the row is
\* failed with the reason as error_message, progress is the last committed
\* value, the stage ran once and no later stage was invoked.
C3_PermanentFailure ==
  \A t \in Reqs :
    (Quiet(t) /\ lastExc[t].msg \in PermanentReasons) =>
      /\ rows[t].status = "failed"
      /\ rows[t].error_message = lastExc[t].msg
      /\ rows[t].progress = (IF progLog[t].last = NoneInt THEN 0 ELSE progLog[t].last)
      /\ lastExc[t].n = 1
      /\ invoked[t] = {"validate_media"}

\* C4: a submission counted at or above the quota is rejected, and neither the
\* rejection nor anything later creates a row, a file or a message for it; a
\* submission counted below the quota is admitted.
C4_QuotaRejection ==
  [][\A r \in Reqs :
       /\ (hpc[r] = "start" /\ hpc'[r] # "start") =>
            IF Cardinality(ActiveRows(UserOf(r))) >= max_active_tasks_per_user
              THEN hpc'[r] = "rejected" /\ rows' = rows /\ files' = files /\ queue' = queue /\ running' = running
              ELSE hpc'[r] = "admitted"
       /\ hpc[r] = "rejected" =>
            /\ hpc'[r] = "rejected"
            /\ rows'[r] = AbsentRow /\ files'[r] = NoFile /\ invoked'[r] = {}
            /\ \A m \in queue' \cup running' : m.task # r]_vars

\* C4 witness: a submission was rejected while the user held the quota, one of
\* the rows being the earlier submission's of the same window.
C4_Witness ==
  \E r \in Reqs : \E q \in Reqs :
    /\ hpc[r] = "rejected" /\ rows[r] = AbsentRow
    /\ q \in ActiveRows(UserOf(r))
    /\ Cardinality(ActiveRows(UserOf(r))) = max_active_tasks_per_user

\* C5: no user ever has more active rows than the quota.
C5_QuotaNeverExceeded ==
  \A u \in {"u", "v"} : Cardinality(ActiveRows(u)) <= max_active_tasks_per_user

\* C6: when the pipeline is over, a task whose stage returned after four
\* raises and whose last execution returned is completed, and a task whose
\* stage raised six times in a row is failed with the last message raised.
C6_RetryCap ==
  \A t \in Reqs :
    Quiet(t) =>
      /\ (after4[t] /\ lastExc[t] = NoExc) => rows[t].status = "completed"
      /\ lastExc[t].n = max_retries + 1 => (rows[t].status = "failed" /\ rows[t].error_message = lastExc[t].msg)

\* C7: the write of finalize_success, applied to a row it finds, leaves the row
\* completed at 100 with the outputs of the context and no error_message.
C7_FinalizeWrite ==
  [][\A m \in running :
       (m.stage = "finalize_success" /\ m \notin running' /\ Visible(rows, m.task)) =>
         /\ rows'[m.task].status = "completed"
         /\ rows'[m.task].progress = 100
         /\ rows'[m.task].outputs = FinalOutputs(m.ctx)
         /\ rows'[m.task].error_message = NoneStr]_vars

LocalOutputs(t) == [thumbnail |-> LocalPath(t, "thumb"), variants |-> [i \in 1..Len(resolutions) |-> [label |-> resolutions[i].label, url |-> LocalPath(t, WmName[resolutions[i].label])]]]

\* C8: when the pipeline is over and every upload_outputs execution met a
\* storage that was disabled or failed every upload, the stage has not failed
\* and the row is completed with the local paths as outputs.
C8_StorageFallback ==
  \A t \in Reqs :
    (Quiet(t) /\ upl[t] # {} /\ upl[t] \subseteq {"unavailable", "disabled"}) =>
      /\ lastExc[t] = NoExc
      /\ rows[t].status = "completed"
      /\ rows[t].outputs = LocalOutputs(t)

\* C9: the stream sends nothing after a terminal snapshot, ends with the
\* snapshot that is terminal, and, for a task found at the first tick, ends
\* only after a terminal snapshot.
C9_StreamEndsAtTerminal ==
  /\ \A i \in 1..(Len(sent) - 1) : ~Terminal(sent[i].status)
  /\ (Len(sent) > 0 /\ Terminal(sent[Len(sent)].status)) => spc = "closed"
  /\ (spc = "closed" /\ sent[1].kind = "snapshot") => Terminal(sent[Len(sent)].status)

\* C9 witness: the stream has sent a snapshot that was not terminal, then a
\* terminal one, and has ended.
C9_Witness ==
  /\ spc = "closed" /\ Len(sent) = 2
  /\ sent[1].kind = "snapshot" /\ ~Terminal(sent[1].status)
  /\ Terminal(sent[2].status)

\* C10: a not-found message is the only message of its stream and ends it.
C10_NotFoundEndsStream ==
  \A i \in 1..Len(sent) : sent[i].kind = "error" => (sent = <<NotFound>> /\ spc = "closed")

\* C10 witness: the id did not resolve at a tick (the row is added but not yet
\* committed), and the stream has sent the not-found message and ended.
C10_Witness ==
  /\ sent = <<NotFound>> /\ spc = "closed"
  /\ rows[StreamTask].vis = "flushed"

\* C11: a submission that was accepted and answered returned the status queued.
C11_ResponseQueued ==
  \A r \in Reqs : hpc[r] = "done" => resp[r] = "queued"

\* a height that is the quotient num / den rounded to the nearest integer
\* (a tie either way), or 1 when that is below 1
NearestAtLeastOne(h, num, den) ==
  \/ h >= 1 /\ 2 * (h * den - num) <= den /\ 2 * (num - h * den) <= den
  \/ h = 1 /\ 2 * num <= den

\* C12: every variant of an image has the height
\* max(1, round(width * src_height / src_width)), and a 1000 x 500 source gives
\* 960 at width 1920 and 427 at width 854.
C12_RoundedHeight ==
  /\ \A i \in 1..Len(variants) : NearestAtLeastOne(variants[i].height, variants[i].width * img.height, img.width)
  /\ (variants # <<>> /\ img = [width |-> 1000, height |-> 500]) => (variants[1].height = 960 /\ variants[3].height = 427)

\* C13: a retry carries the stage and the context of the execution that
\* raised, and no stage message is executed more than 5 times: the execution
\* after retries raises is number retries + 1.
C13_AtMostFiveExecutions ==
  /\ \A m \in queue \cup running : m.retries > 0 => m.stage \in invoked[m.task]
  /\ \A m \in running : m.retries + 1 <= 5

\* C14: a row's status changes only from queued to processing and from
\* processing to completed or failed.
C14_StatusOrder ==
  [][\A t \in Reqs :
       (Visible(rows, t) /\ rows'[t].status # rows[t].status) =>
         \/ rows[t].status = "queued" /\ rows'[t].status = "processing"
         \/ rows[t].status = "processing" /\ rows'[t].status \in {"completed", "failed"}]_vars

\* C15: a message of stage N+1 exists only once every stage up to N has been
\* executed, and no two stage executions of one task are running at a time.
C15_NoConcurrentStages ==
  /\ \A m \in queue \cup running : \A i \in 1..(StageIndex(m.stage) - 1) : Stages[i] \in invoked[m.task]
  /\ \A m1 \in running : \A m2 \in running : m1.task = m2.task => m1 = m2

\* C16: every submission that returned a task id eventually has a row whose
\* status is completed or failed.
C16_EventuallyTerminal ==
  \A t \in Reqs : [](hpc[t] = "done" => <>(Terminal(rows[t].status)))

\* C17: whenever an execution of an admitted task ends with a write through
\* update_media_row (it returned, or it failed for good: it was not requeued
\* as a retry), the row of the task is visible to the worker.
C17_RowVisibleToWrites ==
  [][\A m \in running :
       (m \notin running' /\ Msg(m.task, m.stage, m.retries + 1, m.copy, m.ctx) \notin queue') =>
         Visible(rows, m.task)]_vars

\* the messages of TransientProcessingError
TransientMessages == {"Failed to generate video thumbnail", "Failed to watermark video"} \cup {ConvertError[i] : i \in 1..Len(ConvertError)}

\* C18: an execution that raises TransientProcessingError with retries left
\* changes no row and is requeued as a retry; error_message changes only when
\* an execution fails for good, to the message it raised, with status failed,
\* and for a transient error only at the last retry.
C18_RetryLeavesRow ==
  [][/\ \A m \in running :
          (m \notin running' /\ lastExc'[m.task].msg \in TransientMessages /\ m.retries < max_retries) =>
            /\ rows' = rows
            /\ Msg(m.task, m.stage, m.retries + 1, m.copy, m.ctx) \in queue'
     /\ \A t \in Reqs :
          rows'[t].error_message # rows[t].error_message =>
            \E m \in running \ running' :
              /\ m.task = t
              /\ rows'[t].error_message = lastExc'[t].msg
              /\ rows'[t].status = "failed"
              /\ lastExc'[t].msg \in TransientMessages => m.retries = max_retries]_vars

\* C18 witness: a stage of a task has raised a transient error and waits for
\* its retry, and the row is as validate_media and generate_thumbnail left it.
C18_Witness ==
  \E t \in Reqs : \E m \in queue :
    /\ m.task = t /\ m.stage = "convert_resolutions" /\ m.retries = lastExc[t].n
    /\ lastExc[t].msg \in TransientMessages /\ lastExc[t].n >= 1
    /\ Visible(rows, t) /\ rows[t].status = "processing" /\ rows[t].progress = 25
    /\ rows[t].error_message = NoneStr

\* C19: once the status stream has ended, by a terminal status, by a task not
\* found or by the subscriber disconnecting, no session it opened is open.
C19_SessionsReleased ==
  spc \in {"closed", "gone"} => sessions = 0

====
